---- MODULE Spec2Model ----
(***************************************************************************)
(* Password composition policy (PCP): the policy data model, its JSON      *)
(* form (stringify / parse), the consistency validator and the password    *)
(* checker, modelled from pcp_data.ts and the checker module.              *)
(*                                                                         *)
(* Encoding of the JavaScript values:                                      *)
(*   - an optional value is a set with at most one element: Undefined is   *)
(*     {} and a present value v is {v};                                    *)
(*   - a string is a sequence of one-character strings;                    *)
(*   - a Set is a TLA+ set (only membership and size are observed);        *)
(*   - an object used as a dictionary (the charset table, the             *)
(*     charset_requirements map, the charsets diff) is a sequence of       *)
(*     [key, value] records with distinct keys, in insertion order;        *)
(*   - array indices are 0-based as in the source; an out-of-range read    *)
(*     and a lookup of a missing key both give NoIndex (undefined).        *)
(***************************************************************************)
EXTENDS Integers, Sequences, FiniteSets, TLC

(***************************************************************************)
(* Bounds of the model                                                     *)
(***************************************************************************)
\* longest password tried
MaxPwLen == 3
\* largest min_length of a rule
MaxMinLen == 3

(***************************************************************************)
(* Optional values and JavaScript truthiness                               *)
(***************************************************************************)
Undefined == {}
Some(v) == {v}
IsDefined(x) == x # {}
Get(x) == CHOOSE v \in x : TRUE
\* `x && ...` for an optional number: undefined and 0 are falsy
Truthy(x) == x # {} /\ Get(x) # 0
\* undefined array element / undefined dictionary lookup
NoIndex == 0 - 1

(***************************************************************************)
(* Dictionaries (objects with insertion-ordered keys)                      *)
(***************************************************************************)
Keys(d) == {d[i].key : i \in DOMAIN d}
HasKey(d, k) == \E i \in DOMAIN d : d[i].key = k
Lookup(d, k) == d[CHOOSE i \in DOMAIN d : d[i].key = k].value
\* delete d[k]
Delete(d, k) == SelectSeq(d, LAMBDA e : e.key # k)
\* d[k] = v: an existing key keeps its place, a new key is appended
Assign(d, k, v) ==
    IF HasKey(d, k)
    THEN [i \in DOMAIN d |-> IF d[i].key = k THEN [key |-> k, value |-> v] ELSE d[i]]
    ELSE Append(d, [key |-> k, value |-> v])

(***************************************************************************)
(* Helper functions on sets                                                *)
(***************************************************************************)
areSetsEqual(first, second) ==
    /\ Cardinality(first) = Cardinality(second)
    /\ \A element \in first : element \in second

isSubset(subset, superset) ==
    /\ Cardinality(subset) <= Cardinality(superset)
    /\ \A element \in subset : element \in superset

hasSetIntersection(first, second) == \E element \in first : element \in second

getSetIntersection(first, second) == {element \in first : element \in second}

\* `first.size != second.size` reads the size property of two plain objects,
\* which neither has: undefined != undefined is false.  The loop then
\* compares the entries of `second` with `second` itself.
areCharsetsEqual(first, second) ==
    \/ first = second
    \/ /\ ~(Undefined # Undefined)
       /\ \A i \in DOMAIN second :
            ~(~HasKey(second, second[i].key)
              \/ ~areSetsEqual(second[i].value, Lookup(second, second[i].key)))

(***************************************************************************)
(* Built-in charsets.  The character classes keep a few representatives of *)
(* the ASCII classes of the source.                                        *)
(***************************************************************************)
ascii_lowercase == {"a", "b"}
ascii_uppercase == {"A", "B"}
digits == {"1", "2"}
symbols == {"!"}

DEFAULT_CHARSETS ==
    << [key |-> "lower", value |-> ascii_lowercase],
       [key |-> "upper", value |-> ascii_uppercase],
       [key |-> "digits", value |-> digits],
       [key |-> "symbols", value |-> symbols] >>

ALPHABET_CHARSETS ==
    << [key |-> "alphabet", value |-> ascii_lowercase \cup ascii_uppercase],
       [key |-> "digits", value |-> digits],
       [key |-> "symbols", value |-> symbols] >>

(***************************************************************************)
(* Constructors                                                            *)
(***************************************************************************)
PCPCharsetRequirement(min_required, max_allowed, max_consecutive, required_locations, prohibited_locations) ==
    [min_required |-> min_required,
     max_allowed |-> max_allowed,
     max_consecutive |-> max_consecutive,
     required_locations |-> required_locations,
     prohibited_locations |-> prohibited_locations]

PCPSubsetRequirement(count, options) == [count |-> count, options |-> options]

\* min_length is an optional number here, a number in the object (`?? 1`)
PCPRule(min_length, max_length, max_consecutive, prohibited_substrings, require, require_subset, charset_requirements) ==
    [min_length |-> IF IsDefined(min_length) THEN Get(min_length) ELSE 1,
     max_length |-> max_length,
     max_consecutive |-> max_consecutive,
     prohibited_substrings |-> prohibited_substrings,
     require |-> require,
     require_subset |-> require_subset,
     charset_requirements |-> charset_requirements]

\* charsets is optional (`?? DEFAULT_CHARSETS`)
PCP(rules, charsets) ==
    [rules |-> rules,
     charsets |-> IF IsDefined(charsets) THEN Get(charsets) ELSE DEFAULT_CHARSETS]

(***************************************************************************)
(* Outcomes of validation: no error, or the RangeError that is thrown.     *)
(* An error keeps the constraint it reports (msg), the index of the rule   *)
(* in its path (NoIndex outside the rules) and the charset names its text  *)
(* contains.                                                               *)
(***************************************************************************)
Valid == [ok |-> TRUE, name |-> "", msg |-> "", rule |-> NoIndex, names |-> {}]
RangeError(msg, rule, names) ==
    [ok |-> FALSE, name |-> "RangeError", msg |-> msg, rule |-> rule, names |-> names]
TypeError(msg) ==
    [ok |-> FALSE, name |-> "TypeError", msg |-> msg, rule |-> NoIndex, names |-> {}]

\* the outcome of the first element of a dictionary or sequence that fails
FirstError(outcomes) ==
    IF \A i \in DOMAIN outcomes : outcomes[i].ok
    THEN Valid
    ELSE outcomes[CHOOSE i \in DOMAIN outcomes :
                    /\ ~outcomes[i].ok
                    /\ \A j \in DOMAIN outcomes : j < i => outcomes[j].ok]

(***************************************************************************)
(* PCPCharsetRequirement._validate                                         *)
(***************************************************************************)
LocationNotGuaranteed(location, min_length) ==
    \/ location >= 0 /\ location >= min_length
    \/ location < 0 /\ (0 - location) + 1 >= min_length

PCPCharsetRequirement_validate(this, rule, key, min_length) ==
    IF Truthy(this.min_required) /\ Get(this.min_required) < 1
    THEN RangeError("min_required may not be less than 1", rule, {key})
    ELSE IF Truthy(this.max_allowed) /\ Get(this.max_allowed) < 1
    THEN RangeError("max_allowed may not be less than 1", rule, {key})
    ELSE IF Truthy(this.max_consecutive) /\ Get(this.max_consecutive) < 1
    THEN RangeError("max_consecutive may not be less than 1", rule, {key})
    ELSE IF /\ IsDefined(this.required_locations)
            /\ \E location \in Get(this.required_locations) :
                 LocationNotGuaranteed(location, min_length)
    THEN RangeError("required_locations contains a location that is not guaranteed to exist",
                    rule, {key})
    ELSE IF /\ IsDefined(this.required_locations)
            /\ IsDefined(this.prohibited_locations)
            /\ \E x \in Get(this.required_locations) : x \in Get(this.prohibited_locations)
    THEN RangeError("required_locations && prohibited_locations may not overlap", rule, {key})
    ELSE IF /\ Truthy(this.max_allowed)
            /\ Truthy(this.min_required)
            /\ Get(this.max_allowed) < Get(this.min_required)
    THEN RangeError("max_allowed cannot be less than min_required", rule, {key})
    ELSE IF /\ Truthy(this.max_allowed)
            /\ IsDefined(this.required_locations)
            /\ Cardinality(Get(this.required_locations)) > Get(this.max_allowed)
    THEN RangeError("required_locations cannot be more than max_allowed", rule, {key})
    ELSE Valid

(***************************************************************************)
(* PCPSubsetRequirement._validate                                          *)
(***************************************************************************)
PCPSubsetRequirement_validate(this, rule, charsets) ==
    IF this.count < 1
    THEN RangeError("count may not be less than 1", rule, {})
    ELSE IF IsDefined(this.options)
    THEN IF Cardinality(Get(this.options)) < 2
         THEN RangeError("options must include at least two charsets", rule, {})
         ELSE IF \E x \in Get(this.options) : x \notin charsets
         THEN RangeError("options includes invalid charsets", rule,
                         {x \in Get(this.options) : x \notin charsets})
         ELSE IF this.count >= Cardinality(Get(this.options))
         THEN RangeError("count may not be greater than || equal to the number of options",
                         rule, {})
         ELSE Valid
    ELSE IF this.count >= Cardinality(charsets)
    THEN RangeError("count may not be greater than || equal to the number of available character sets",
                    rule, {})
    ELSE Valid

(***************************************************************************)
(* PCPRule._validate                                                       *)
(***************************************************************************)
\* first loop over charset_requirements: key is a charset, then the entry's
\* own validation
CharsetRequirementsValid(this, rule, charsets) ==
    IF IsDefined(this.charset_requirements)
    THEN LET reqs == Get(this.charset_requirements)
         IN FirstError([i \in DOMAIN reqs |->
                IF reqs[i].key \notin charsets
                THEN RangeError("is not a valid charset name", rule, {reqs[i].key})
                ELSE PCPCharsetRequirement_validate(reqs[i].value, rule, reqs[i].key,
                                                    this.min_length)])
    ELSE Valid

\* second loop over charset_requirements: overlap with require and
\* require_subset
CharsetRequirementsOverlap(this, rule, require_charsets, subset_charsets) ==
    IF IsDefined(this.charset_requirements)
    THEN LET reqs == Get(this.charset_requirements)
         IN FirstError([i \in DOMAIN reqs |->
                IF reqs[i].key \in require_charsets \/ reqs[i].key \in subset_charsets
                THEN IF Truthy(reqs[i].value.min_required)
                     THEN RangeError("require, require_subset, and charset_requirements cannot have overlapping charset requirements",
                                     rule, {reqs[i].key})
                     ELSE IF /\ Truthy(reqs[i].value.max_allowed)
                             /\ Get(reqs[i].value.max_allowed) = 0
                     THEN RangeError("max_allowed cannot be 0 when the charset is used in require or require_subset",
                                     rule, {reqs[i].key})
                     ELSE Valid
                ELSE Valid])
    ELSE Valid

PCPRule_validate(this, rule, charsets) ==
    LET require_charsets == IF IsDefined(this.require) THEN Get(this.require) ELSE {}
        subset_charsets ==
            IF IsDefined(this.require_subset) /\ IsDefined(Get(this.require_subset).options)
            THEN Get(Get(this.require_subset).options)
            ELSE charsets
        subset_outcome ==
            IF IsDefined(this.require_subset)
            THEN PCPSubsetRequirement_validate(Get(this.require_subset), rule, charsets)
            ELSE Valid
        requirements_outcome == CharsetRequirementsValid(this, rule, charsets)
        overlap_outcome ==
            CharsetRequirementsOverlap(this, rule, require_charsets, subset_charsets)
    IN
    IF this.min_length < 1
    THEN RangeError("min_length may not be less than 1", rule, {})
    ELSE IF Truthy(this.max_length) /\ Get(this.max_length) < 1
    THEN RangeError("max_length may not be less than 1", rule, {})
    ELSE IF /\ Truthy(this.max_length)
            /\ this.min_length # 0
            /\ Get(this.max_length) < this.min_length
    THEN RangeError("max_length cannot be less than min_length", rule, {})
    ELSE IF Truthy(this.max_consecutive) /\ Get(this.max_consecutive) < 1
    THEN RangeError("max_consecutive may not be less than 1", rule, {})
    ELSE IF IsDefined(this.require) /\ ~isSubset(Get(this.require), charsets)
    THEN RangeError("require includes invalid charsets", rule,
                    {x \in Get(this.require) : x \notin charsets})
    ELSE IF ~subset_outcome.ok
    THEN subset_outcome
    ELSE IF ~requirements_outcome.ok
    THEN requirements_outcome
    ELSE IF hasSetIntersection(require_charsets, subset_charsets)
    THEN RangeError("require and require_subset cannot have overlapping charset requirements",
                    rule, getSetIntersection(require_charsets, subset_charsets))
    ELSE overlap_outcome

(***************************************************************************)
(* PCP.validate                                                            *)
(***************************************************************************)
\* OverlappingPairs with the inner loop starting at i + 2
OverlappingPairsSkippingNeighbour(charsets) ==
    {p \in (DOMAIN charsets) \X (DOMAIN charsets) :
        p[1] + 1 < p[2] /\ hasSetIntersection(charsets[p[1]].value, charsets[p[2]].value)}

\* the pairs i < j of the table whose charsets share a character
OverlappingPairs(charsets) ==
    {p \in (DOMAIN charsets) \X (DOMAIN charsets) :
        p[1] < p[2] /\ hasSetIntersection(charsets[p[1]].value, charsets[p[2]].value)}

\* FirstOverlappingPair with the message naming charset_keys[i] twice
FirstOverlappingPairNamingOne(charsets) ==
    LET p == CHOOSE p \in OverlappingPairs(charsets) :
                \A q \in OverlappingPairs(charsets) :
                    p[1] < q[1] \/ (p[1] = q[1] /\ p[2] <= q[2])
    IN <<p[1], p[1]>>

\* the first of them in the order of the two nested loops
FirstOverlappingPair(charsets) ==
    CHOOSE p \in OverlappingPairs(charsets) :
        \A q \in OverlappingPairs(charsets) :
            p[1] < q[1] \/ (p[1] = q[1] /\ p[2] <= q[2])

validate(this) ==
    IF \E i \in DOMAIN this.charsets : Cardinality(this.charsets[i].value) = 0
    THEN LET i == CHOOSE i \in DOMAIN this.charsets :
                    /\ Cardinality(this.charsets[i].value) = 0
                    /\ \A j \in DOMAIN this.charsets :
                         j < i => Cardinality(this.charsets[j].value) # 0
         IN RangeError("must not be empty", NoIndex, {this.charsets[i].key})
    ELSE IF OverlappingPairs(this.charsets) # {}
    THEN LET p == FirstOverlappingPair(this.charsets)
         IN RangeError("may not have shared characters", NoIndex,
                       {this.charsets[p[1]].key, this.charsets[p[2]].key})
    ELSE IF Len(this.rules) < 1
    THEN RangeError("rules must contain at least one rule", NoIndex, {})
    ELSE FirstError([i \in DOMAIN this.rules |->
                        PCPRule_validate(this.rules[i], i - 1, Keys(this.charsets))])

(***************************************************************************)
(* check_password and check_password_against_rule                          *)
(***************************************************************************)
\* charset_mapping[name]
charset_mapping(charsets, name) ==
    IF HasKey(charsets, name)
    THEN (CHOOSE i \in DOMAIN charsets : charsets[i].key = name) - 1
    ELSE NoIndex

\* the index pushed for one character: that of the first charset of the
\* table, in iteration order, that has it; NoIndex when none has (not found)
MappedChar(charsets, char) ==
    IF \E i \in DOMAIN charsets : char \in charsets[i].value
    THEN charset_mapping(charsets,
            charsets[CHOOSE i \in DOMAIN charsets :
                        /\ char \in charsets[i].value
                        /\ \A j \in DOMAIN charsets :
                             j < i => char \notin charsets[j].value].key)
    ELSE NoIndex

mapped_password(password, charsets) ==
    [i \in DOMAIN password |-> MappedChar(charsets, password[i])]

\* array[index] with a 0-based index; undefined out of range
At(array, index) ==
    IF index >= 0 /\ index < Len(array) THEN array[index + 1] ELSE NoIndex

\* array.includes(value)
includes(array, value) == \E i \in DOMAIN array : array[i] = value

\* array.filter(c => c == value).length
CountOf(array, value) == Cardinality({i \in DOMAIN array : array[i] = value})

\* password.includes(s) for strings
StringIncludes(password, s) ==
    \E k \in 0..(Len(password) - Len(s)) : SubSeq(password, k + 1, k + Len(s)) = s

\* the max_consecutive loop of a rule, over the raw characters, from the
\* i-th character on: TRUE when it returns false
RECURSIVE RawRunExceeds(_, _, _, _, _)
RawRunExceeds(password, i, last_char, consecutive_count, max_consecutive) ==
    IF i > Len(password)
    THEN FALSE
    ELSE IF password[i] = last_char
    THEN IF consecutive_count + 1 > max_consecutive
         THEN TRUE
         ELSE RawRunExceeds(password, i + 1, last_char, consecutive_count + 1,
                            max_consecutive)
    ELSE RawRunExceeds(password, i + 1, password[i], 1, max_consecutive)

\* the max_consecutive loop of a charset requirement, over the mapped password
RECURSIVE CharsetRunExceeds(_, _, _, _, _)
CharsetRunExceeds(mapped, i, consecutive_count, charset_index, max_consecutive) ==
    IF i > Len(mapped)
    THEN FALSE
    ELSE IF mapped[i] = charset_index
    THEN IF consecutive_count + 1 > max_consecutive
         THEN TRUE
         ELSE CharsetRunExceeds(mapped, i + 1, consecutive_count + 1, charset_index,
                                max_consecutive)
    ELSE CharsetRunExceeds(mapped, i + 1, 0, charset_index, max_consecutive)

\* the required_locations loop: TRUE when it returns false
RequiredLocationFails(password, mapped, charset_index, location) ==
    \/ location >= 0 /\ At(mapped, location) # charset_index
    \/ location <= 0 /\ At(mapped, Len(password) + location) # charset_index

\* ProhibitedLocationFails with the location used as the index, untranslated
ProhibitedLocationFailsUntranslated(password, mapped, charset_index, location) ==
    /\ location >= 0
    /\ Len(password) > location
    /\ At(mapped, location) = charset_index

\* the prohibited_locations loop: TRUE when it returns false
ProhibitedLocationFails(password, mapped, charset_index, location) ==
    LET corrected_location == IF location >= 0 THEN location
                              ELSE Len(password) + location
    IN /\ corrected_location >= 0
       /\ Len(password) > corrected_location
       /\ At(mapped, corrected_location) = charset_index

\* the body of the loop over charset_requirements: TRUE when no check of
\* this entry returns false
CharsetRequirementHolds(password, charsets, mapped, charset, requirements) ==
    LET charset_index == charset_mapping(charsets, charset)
        charset_count == CountOf(mapped, charset_index)
    IN /\ ~(Truthy(requirements.min_required)
            /\ charset_count < Get(requirements.min_required))
       /\ ~(Truthy(requirements.max_allowed)
            /\ charset_count > Get(requirements.max_allowed))
       /\ ~(Truthy(requirements.max_consecutive)
            /\ CharsetRunExceeds(mapped, 1, 0, charset_index,
                                 Get(requirements.max_consecutive)))
       /\ ~(IsDefined(requirements.required_locations)
            /\ \E location \in Get(requirements.required_locations) :
                 RequiredLocationFails(password, mapped, charset_index, location))
       /\ ~(IsDefined(requirements.prohibited_locations)
            /\ \E location \in Get(requirements.prohibited_locations) :
                 ProhibitedLocationFails(password, mapped, charset_index, location))

\* the require_subset block: TRUE when it does not return false
SubsetRequirementHolds(charsets, mapped, require_subset) ==
    LET options ==
            IF IsDefined(require_subset.options)
            THEN {charset_mapping(charsets, o) : o \in Get(require_subset.options)}
            ELSE {charset_mapping(charsets, charsets[i].key) : i \in DOMAIN charsets}
    IN ~(Cardinality({o \in options : includes(mapped, o)}) < require_subset.count)

check_password_against_rule(password, rule, charsets, mapped) ==
    /\ ~(Len(password) < rule.min_length)
    /\ ~(Truthy(rule.max_length) /\ Len(password) > Get(rule.max_length))
    /\ ~(Truthy(rule.max_consecutive)
         /\ RawRunExceeds(password, 1, "", 0, Get(rule.max_consecutive)))
    /\ ~(IsDefined(rule.prohibited_substrings)
         /\ \E s \in Get(rule.prohibited_substrings) : StringIncludes(password, s))
    /\ ~(IsDefined(rule.require)
         /\ \E r \in Get(rule.require) : ~includes(mapped, charset_mapping(charsets, r)))
    /\ ~(IsDefined(rule.require_subset)
         /\ ~SubsetRequirementHolds(charsets, mapped, Get(rule.require_subset)))
    /\ ~(IsDefined(rule.charset_requirements)
         /\ \E i \in DOMAIN Get(rule.charset_requirements) :
              ~CharsetRequirementHolds(password, charsets, mapped,
                                       Get(rule.charset_requirements)[i].key,
                                       Get(rule.charset_requirements)[i].value))

\* outcome of a call: a returned value, or a thrown error
Returned(value) == [threw |-> FALSE, error |-> Valid, value |-> value]
Threw(error) == [threw |-> TRUE, error |-> error, value |-> FALSE]
\* a call that returns nothing
Void == Returned(FALSE)

\* AnyRulePasses with the loop returning the result of the first rule
FirstRulePasses(password, pcp, mapped) ==
    /\ Len(pcp.rules) >= 1
    /\ check_password_against_rule(password, pcp.rules[1], pcp.charsets, mapped)

\* the loop over pcp.rules: true at the first rule that passes
AnyRulePasses(password, pcp, mapped) ==
    \E i \in DOMAIN pcp.rules :
        check_password_against_rule(password, pcp.rules[i], pcp.charsets, mapped)

\* check_password with pcp.validate() called after the password is mapped
check_password_mapping_first(password, pcp) ==
    LET mapped == mapped_password(password, pcp.charsets)
    IN IF \E i \in DOMAIN mapped : mapped[i] = NoIndex
       THEN Returned(FALSE)
       ELSE IF ~validate(pcp).ok
       THEN Threw(validate(pcp))
       ELSE Returned(AnyRulePasses(password, pcp, mapped))

check_password(password, pcp) ==
    LET mapped == mapped_password(password, pcp.charsets)
    IN IF ~validate(pcp).ok
       THEN Threw(validate(pcp))
       ELSE IF \E i \in DOMAIN mapped : mapped[i] = NoIndex
       THEN Returned(FALSE)
       ELSE Returned(AnyRulePasses(password, pcp, mapped))

(***************************************************************************)
(* JSON values.  A text is the JSON value that JSON.stringify writes and   *)
(* JSON.parse reads back: a key whose value is undefined is not written.   *)
(*   - the value of a Set-typed key is an array, or the empty object {}    *)
(*     (array |-> FALSE);                                                  *)
(*   - a text has the optional keys `rules` and `charsets`, and in `top`   *)
(*     the keys of a rule that the top-level object itself carries.        *)
(***************************************************************************)
JsonArray(items) == [array |-> TRUE, items |-> items]
JsonEmptyObject == [array |-> FALSE, items |-> {}]

\* to_json of one value that is a Set or undefined
to_json_set(value) ==
    IF ~IsDefined(value)
    THEN Undefined
    ELSE IF Cardinality(Get(value)) > 0
    THEN Some(JsonArray(Get(value)))
    ELSE Some(JsonEmptyObject)

\* to_json of a PCPCharsetRequirement
to_json_charset_requirement(obj) ==
    [min_required |-> obj.min_required,
     max_allowed |-> obj.max_allowed,
     max_consecutive |-> obj.max_consecutive,
     required_locations |-> to_json_set(obj.required_locations),
     prohibited_locations |-> to_json_set(obj.prohibited_locations)]

\* to_json of a PCPSubsetRequirement, which has no required_locations key
to_json_subset_requirement(obj) ==
    [count |-> obj.count,
     options |-> to_json_set(obj.options),
     required_locations |-> Undefined]

\* to_json of a PCPRule
to_json(obj) ==
    [min_length |-> Some(obj.min_length),
     max_length |-> obj.max_length,
     max_consecutive |-> obj.max_consecutive,
     prohibited_substrings |-> to_json_set(obj.prohibited_substrings),
     require |-> to_json_set(obj.require),
     require_subset |->
        IF IsDefined(obj.require_subset)
        THEN Some(to_json_subset_requirement(Get(obj.require_subset)))
        ELSE Undefined,
     charset_requirements |->
        IF IsDefined(obj.charset_requirements)
        THEN Some([i \in DOMAIN Get(obj.charset_requirements) |->
                    [key |-> Get(obj.charset_requirements)[i].key,
                     value |-> to_json_charset_requirement(
                                  Get(obj.charset_requirements)[i].value)]])
        ELSE Undefined]

\* an object with none of the keys of a rule
NoRuleKeys ==
    [min_length |-> Undefined, max_length |-> Undefined, max_consecutive |-> Undefined,
     prohibited_substrings |-> Undefined, require |-> Undefined,
     require_subset |-> Undefined, charset_requirements |-> Undefined]

\* [...charset].join("")
RECURSIVE join(_)
join(charset) ==
    IF charset = {}
    THEN <<>>
    ELSE LET c == CHOOSE c \in charset : TRUE
         IN <<c>> \o join(charset \ {c})

\* new Set(string)
SetOfString(string) == {string[i] : i \in DOMAIN string}

(***************************************************************************)
(* PCP.stringify                                                           *)
(***************************************************************************)
stringify(this) ==
    IF \/ areCharsetsEqual(this.charsets, DEFAULT_CHARSETS)
       \/ areCharsetsEqual(this.charsets, ALPHABET_CHARSETS)
    THEN IF Len(this.rules) = 1
         THEN [rules |-> Undefined, charsets |-> Undefined, top |-> to_json(this.rules[1])]
         ELSE [rules |-> Some([i \in DOMAIN this.rules |-> to_json(this.rules[i])]),
               charsets |-> Undefined,
               top |-> NoRuleKeys]
    ELSE LET default_charsets == IF HasKey(this.charsets, "alphabet")
                                 THEN ALPHABET_CHARSETS ELSE DEFAULT_CHARSETS
             changed == SelectSeq(this.charsets,
                            LAMBDA e : \/ ~HasKey(default_charsets, e.key)
                                       \/ ~areSetsEqual(e.value,
                                                        Lookup(default_charsets, e.key)))
             removed == SelectSeq(default_charsets,
                            LAMBDA e : ~HasKey(this.charsets, e.key))
             output_charsets ==
                 [i \in DOMAIN changed |->
                    [key |-> changed[i].key, value |-> Some(join(changed[i].value))]]
                 \o [i \in DOMAIN removed |->
                    [key |-> removed[i].key, value |-> Undefined]]
         IN [rules |-> Some([i \in DOMAIN this.rules |-> to_json(this.rules[i])]),
             charsets |-> Some(output_charsets),
             top |-> NoRuleKeys]

(***************************************************************************)
(* _from_json and PCP.parse                                                *)
(***************************************************************************)
\* new Set(x) of a JSON value: an array gives its elements, an object is
\* not iterable and throws a TypeError
SetThrows(json) == IsDefined(json) /\ ~Get(json).array

\* `"k" in data && data["k"]` then new Set(data["k"])
from_json_set(json) == IF IsDefined(json) THEN Some(Get(json).items) ELSE Undefined

PCPCharsetRequirement_from_json(data) ==
    PCPCharsetRequirement(data.min_required, data.max_allowed, data.max_consecutive,
                          from_json_set(data.required_locations),
                          from_json_set(data.prohibited_locations))

\* options is new Set(data["required_locations"]); new Set(undefined) is empty
PCPSubsetRequirement_from_json(data) ==
    PCPSubsetRequirement(data.count,
        IF IsDefined(data.options)
        THEN IF IsDefined(data.required_locations)
             THEN Some(Get(data.required_locations).items)
             ELSE Some({})
        ELSE Undefined)

PCPRule_from_json(data) ==
    PCPRule(data.min_length, data.max_length, data.max_consecutive,
            from_json_set(data.prohibited_substrings),
            from_json_set(data.require),
            IF IsDefined(data.require_subset)
            THEN Some(PCPSubsetRequirement_from_json(Get(data.require_subset)))
            ELSE Undefined,
            IF IsDefined(data.charset_requirements)
            THEN Some([i \in DOMAIN Get(data.charset_requirements) |->
                        [key |-> Get(data.charset_requirements)[i].key,
                         value |-> PCPCharsetRequirement_from_json(
                                      Get(data.charset_requirements)[i].value)]])
            ELSE Undefined)

\* whether PCPRule._from_json throws on this object
PCPRule_from_json_throws(data) ==
    \/ SetThrows(data.prohibited_substrings)
    \/ SetThrows(data.require)
    \/ /\ IsDefined(data.require_subset)
       /\ IsDefined(Get(data.require_subset).options)
       /\ SetThrows(Get(data.require_subset).required_locations)
    \/ /\ IsDefined(data.charset_requirements)
       /\ \E i \in DOMAIN Get(data.charset_requirements) :
            \/ SetThrows(Get(data.charset_requirements)[i].value.required_locations)
            \/ SetThrows(Get(data.charset_requirements)[i].value.prohibited_locations)

uses_alphabet_charset(rules) ==
    \E i \in DOMAIN rules :
        \/ IsDefined(rules[i].require) /\ "alphabet" \in Get(rules[i].require)
        \/ /\ IsDefined(rules[i].require_subset)
           /\ IsDefined(Get(rules[i].require_subset).options)
           /\ "alphabet" \in Get(Get(rules[i].require_subset).options)
        \/ /\ IsDefined(rules[i].charset_requirements)
           /\ HasKey(Get(rules[i].charset_requirements), "alphabet")

\* the loop over the entries of data["charsets"], from the i-th entry on
RECURSIVE ApplyCharsetsDiff(_, _, _)
ApplyCharsetsDiff(charsets, diff, i) ==
    IF i > Len(diff)
    THEN charsets
    ELSE IF ~IsDefined(diff[i].value) \/ Len(Get(diff[i].value)) > 0
    THEN ApplyCharsetsDiff(Delete(charsets, diff[i].key), diff, i + 1)
    ELSE ApplyCharsetsDiff(Assign(charsets, diff[i].key, SetOfString(Get(diff[i].value))),
                           diff, i + 1)

\* the outcome of PCP.parse: the policy in `pcp` unless it threw
parse(s) ==
    LET data == IF IsDefined(s.rules) THEN Get(s.rules) ELSE <<s.top>>
    IN IF \E i \in DOMAIN data : PCPRule_from_json_throws(data[i])
       THEN [threw |-> TRUE, error |-> TypeError("object is not iterable"),
             pcp |-> Undefined]
       ELSE LET rules == [i \in DOMAIN data |-> PCPRule_from_json(data[i])]
                base == IF uses_alphabet_charset(rules)
                        THEN ALPHABET_CHARSETS ELSE DEFAULT_CHARSETS
                charsets == IF IsDefined(s.charsets)
                            THEN ApplyCharsetsDiff(base, Get(s.charsets), 1)
                            ELSE base
            IN [threw |-> FALSE, error |-> Valid, pcp |-> Some(PCP(rules, Some(charsets)))]

(***************************************************************************)
(* Inputs: the passwords, rules, charset tables, policies and texts a      *)
(* caller supplies                                                         *)
(***************************************************************************)
\* the characters of the passwords: a lowercase letter, an uppercase letter
\* and a digit; a table of the caller's own may leave some of them out
PasswordChars == {"a", "A", "1"}

RECURSIVE StringsOfLen(_)
StringsOfLen(n) ==
    IF n = 0
    THEN {<<>>}
    ELSE {Append(s, c) : s \in StringsOfLen(n - 1), c \in PasswordChars}

Passwords == UNION {StringsOfLen(n) : n \in 0..MaxPwLen}

\* a rule with scalar bounds only
ScalarRule(min_length, max_length, max_consecutive) ==
    PCPRule(Some(min_length), max_length, max_consecutive,
            Undefined, Undefined, Undefined, Undefined)

\* a rule with require and require_subset
RequireRule(min_length, require, require_subset) ==
    PCPRule(Some(min_length), Undefined, Undefined, Undefined,
            require, require_subset, Undefined)

\* a rule with one charset requirement
CharsetRule(min_length, require, require_subset, charset, requirement) ==
    PCPRule(Some(min_length), Undefined, Undefined, Undefined, require, require_subset,
            Some(<< [key |-> charset, value |-> requirement] >>))

NoRequirement == PCPCharsetRequirement(Undefined, Undefined, Undefined, Undefined, Undefined)

ScalarRules ==
    {ScalarRule(m, ml, Undefined) :
        m \in 0..2, ml \in {Undefined, Some(0), Some(1), Some(2)}}
    \cup {ScalarRule(m, Undefined, mc) : m \in 1..2, mc \in {Some(0), Some(1), Some(2)}}

SubstringRules ==
    {PCPRule(Some(1), Undefined, Undefined, ps, Undefined, Undefined, Undefined) :
        ps \in {Some({}), Some({<<"a", "1">>}), Some({<<"1">>, <<"A", "a">>})}}

SubsetRequirements ==
    {Undefined}
    \cup {Some(PCPSubsetRequirement(c, o)) :
            c \in 1..2,
            o \in {Undefined, Some({"lower", "digits"}), Some({"lower", "upper", "digits"})}}
    \cup {Some(PCPSubsetRequirement(0, Undefined)),
          Some(PCPSubsetRequirement(1, Some({"lower"}))),
          Some(PCPSubsetRequirement(1, Some({"lower", "nosuch"}))),
          Some(PCPSubsetRequirement(4, Undefined))}

RequireRules ==
    {RequireRule(1, Undefined, rs) : rs \in SubsetRequirements}
    \cup {RequireRule(1, r, rs) :
            r \in {Some({"upper"}), Some({"digits"}), Some({"upper", "digits"})},
            rs \in {Undefined,
                    Some(PCPSubsetRequirement(1, Some({"lower", "digits"}))),
                    Some(PCPSubsetRequirement(1, Some({"lower", "symbols"})))}}
    \cup {RequireRule(2, Some({"upper", "digits"}), Undefined),
          RequireRule(1, Some({}), Undefined),
          RequireRule(1, Some({"nosuch"}), Undefined)}

Locations ==
    {Some({0}), Some({1}), Some({2}), Some({0 - 1}), Some({0 - 2}), Some({0 - 3}),
     Some({0, 0 - 1}), Some({})}

LocationRules ==
    {CharsetRule(m, Undefined, Undefined, "digits",
                 PCPCharsetRequirement(Undefined, Undefined, Undefined, l, Undefined)) :
        m \in 1..MaxMinLen, l \in Locations}

ProhibitedRules ==
    {CharsetRule(1, Undefined, Undefined, "digits",
                 PCPCharsetRequirement(Undefined, Undefined, Undefined, Undefined, p)) :
        p \in {Some({0}), Some({0 - 1}), Some({1, 0 - 2}), Some({3}), Some({0 - 4})}}
    \cup {CharsetRule(1, Undefined, Undefined, "digits",
                      PCPCharsetRequirement(Undefined, Undefined, Undefined, Some({0}),
                                            Some({0})))}

CountRules ==
    {CharsetRule(1, Undefined, rs, "digits",
                 PCPCharsetRequirement(mr, ma, Undefined, Undefined, Undefined)) :
        rs \in {Undefined, Some(PCPSubsetRequirement(1, Some({"lower", "upper"}))),
                Some(PCPSubsetRequirement(1, Some({"lower", "digits"})))},
        mr \in {Undefined, Some(1)},
        ma \in {Undefined, Some(0), Some(1)}}
    \cup {CharsetRule(1, Some({"digits"}),
                      Some(PCPSubsetRequirement(1, Some({"lower", "symbols"}))),
                      "digits", q) :
            q \in {NoRequirement,
                   PCPCharsetRequirement(Some(1), Undefined, Undefined, Undefined, Undefined),
                   PCPCharsetRequirement(Undefined, Some(0), Undefined, Undefined, Undefined),
                   PCPCharsetRequirement(Undefined, Some(1), Undefined, Undefined, Undefined)}}
    \cup {CharsetRule(2, Undefined, Undefined, "digits", q) :
            q \in {PCPCharsetRequirement(Some(0), Undefined, Some(0), Undefined, Undefined),
                   PCPCharsetRequirement(Undefined, Undefined, Some(1), Undefined, Undefined),
                   PCPCharsetRequirement(Undefined, Some(1), Undefined, Some({0, 1}),
                                         Undefined)}}
    \cup {CharsetRule(1, Undefined, Some(PCPSubsetRequirement(1, Some({"lower", "upper"}))),
                      "digits",
                      PCPCharsetRequirement(Some(2), Some(1), Undefined, Undefined, Undefined)),
          CharsetRule(1, Undefined, Undefined, "alphabet", NoRequirement)}

\* rules for a table with the "alphabet" charset
AlphabetRules ==
    {ScalarRule(1, Undefined, Undefined),
     RequireRule(1, Undefined, Some(PCPSubsetRequirement(1, Undefined))),
     RequireRule(1, Undefined, Some(PCPSubsetRequirement(2, Undefined))),
     RequireRule(1, Undefined, Some(PCPSubsetRequirement(1, Some({"alphabet", "digits"})))),
     RequireRule(1, Some({"alphabet"}),
                 Some(PCPSubsetRequirement(1, Some({"digits", "symbols"})))),
     CharsetRule(1, Undefined, Undefined, "alphabet",
                 PCPCharsetRequirement(Undefined, Some(1), Undefined, Undefined, Undefined)),
     CharsetRule(1, Undefined, Undefined, "alphabet",
                 PCPCharsetRequirement(Undefined, Undefined, Some(1), Undefined, Undefined)),
     ScalarRule(1, Undefined, Some(1))}

\* the rules of the policies with two rules
PairRules ==
    {ScalarRule(1, Some(1), Undefined),
     ScalarRule(2, Undefined, Some(1)),
     RequireRule(1, Undefined, Some(PCPSubsetRequirement(2, Undefined))),
     CharsetRule(0, Undefined, Undefined, "digits",
                 PCPCharsetRequirement(Undefined, Some(1), Undefined, Undefined,
                                       Some({0})))}

\* tables the caller defines: three charsets, which may be empty or share
\* characters; tables with the "alphabet" charset; a table without uppercase
\* letters; the built-in charsets in another order
CustomCharsets ==
    {<< [key |-> "lower", value |-> l], [key |-> "digits", value |-> d],
        [key |-> "symbols", value |-> y] >> :
        l \in {{}, {"a"}, {"a", "1"}}, d \in {{}, {"1"}, {"1", "A"}},
        y \in {{}, {"a"}, {"A"}}}
    \cup {<< [key |-> "alphabet", value |-> ascii_lowercase \cup ascii_uppercase],
             [key |-> "digits", value |-> d] >> : d \in {digits, {"1"}}}
    \cup {<< [key |-> "lower", value |-> {"a"}], [key |-> "digits", value |-> {"1"}] >>}
    \cup {<< [key |-> "upper", value |-> ascii_uppercase],
             [key |-> "lower", value |-> ascii_lowercase],
             [key |-> "digits", value |-> digits],
             [key |-> "symbols", value |-> symbols] >>}

Policies ==
    {PCP(<<r>>, Undefined) :
        r \in ScalarRules \cup SubstringRules \cup RequireRules \cup LocationRules
              \cup ProhibitedRules \cup CountRules}
    \cup {PCP(<<r>>, Some(ALPHABET_CHARSETS)) : r \in AlphabetRules}
    \cup {PCP(<<r1, r2>>, Undefined) : r1 \in PairRules, r2 \in PairRules}
    \cup {PCP(<<ScalarRule(2, Undefined, Undefined), ScalarRule(1, Some(1), Undefined)>>,
               Some(<< [key |-> "lower", value |-> {"a"}],
                       [key |-> "digits", value |-> {"1"}] >>))}
    \cup {PCP(<<ScalarRule(1, Undefined, Undefined)>>, Some(c)) : c \in CustomCharsets}
    \cup {PCP(<<>>, Some(c)) :
            c \in {DEFAULT_CHARSETS} \cup {t \in CustomCharsets : Len(t) = 3 /\ t[1].value # {}}}

\* texts a caller received from elsewhere
ReceivedTexts ==
    {[rules |-> Undefined, charsets |-> Some(d), top |-> NoRuleKeys] :
        d \in {<< [key |-> "symbols", value |-> Undefined] >>,
               << [key |-> "lower", value |-> Some(<<"a">>)] >>,
               << [key |-> "digits", value |-> Some(<<>>)],
                  [key |-> "extra", value |-> Some(<<>>)] >>}}
    \cup {[rules |-> Some(<<to_json(r)>>), charsets |-> Some(<<>>), top |-> NoRuleKeys] :
            r \in {RequireRule(1, Undefined,
                               Some(PCPSubsetRequirement(1, Some({"alphabet", "digits"})))),
                   RequireRule(1, Some({"alphabet"}), Undefined),
                   CharsetRule(1, Undefined, Undefined, "alphabet", NoRequirement)}}

(***************************************************************************)
(* The state: a caller holds a policy it constructed (pcp) or a text it    *)
(* received (text), a password, and the policy of the last parse; op and   *)
(* outcome are the last call and what it returned or threw.                *)
(***************************************************************************)
VARIABLES pcp, password, text, parsed, op, outcome

vars == <<pcp, password, text, parsed, op, outcome>>

Init ==
    /\ \/ pcp \in {Some(p) : p \in Policies} /\ text = Undefined
       \/ pcp = Undefined /\ text \in {Some(t) : t \in ReceivedTexts}
    /\ password \in Passwords
    /\ parsed = Undefined
    /\ op = "none"
    /\ outcome = Void

\* pcp.validate()
Validate ==
    /\ IsDefined(pcp)
    /\ op' = "validate"
    /\ outcome' = IF validate(Get(pcp)).ok THEN Void ELSE Threw(validate(Get(pcp)))
    /\ UNCHANGED <<pcp, password, text, parsed>>

\* check_password(password, pcp)
CheckPassword ==
    /\ IsDefined(pcp)
    /\ op' = "check_password"
    /\ outcome' = check_password(password, Get(pcp))
    /\ UNCHANGED <<pcp, password, text, parsed>>

\* text = pcp.stringify()
Stringify ==
    /\ IsDefined(pcp)
    /\ op' = "stringify"
    /\ text' = Some(stringify(Get(pcp)))
    /\ outcome' = Void
    /\ UNCHANGED <<pcp, password, parsed>>

\* parsed = PCP.parse(text)
Parse ==
    /\ IsDefined(text)
    /\ op' = "parse"
    /\ parsed' = parse(Get(text)).pcp
    /\ outcome' = IF parse(Get(text)).threw THEN Threw(parse(Get(text)).error) ELSE Void
    /\ UNCHANGED <<pcp, password, text>>

\* parsed.validate()
ValidateParsed ==
    /\ IsDefined(parsed)
    /\ op' = "validate_parsed"
    /\ outcome' = IF validate(Get(parsed)).ok THEN Void ELSE Threw(validate(Get(parsed)))
    /\ UNCHANGED <<pcp, password, text, parsed>>

\* check_password(password, parsed)
CheckParsed ==
    /\ IsDefined(parsed)
    /\ op' = "check_parsed"
    /\ outcome' = check_password(password, Get(parsed))
    /\ UNCHANGED <<pcp, password, text, parsed>>

Next ==
    \/ Validate
    \/ CheckPassword
    \/ Stringify
    \/ Parse
    \/ ValidateParsed
    \/ CheckParsed

Spec == Init /\ [][Next]_vars

(***************************************************************************)
(* Properties                                                              *)
(***************************************************************************)
\* the policy with the i-th rule of p alone
SingleRulePolicy(p, i) == [rules |-> <<p.rules[i]>>, charsets |-> p.charsets]

\* the charsets of a table that have the character
CharsetsWith(charsets, char) == {i \in DOMAIN charsets : char \in charsets[i].value}

\* every character of the string is in some charset of the table
AllInTable(string, charsets) ==
    \A i \in DOMAIN string : CharsetsWith(charsets, string[i]) # {}

\* the string has a character of the named charset
HasCharOf(string, charsets, name) ==
    \E i \in DOMAIN string : string[i] \in Lookup(charsets, name)

\* C1: OR semantics.  When the policies {r1}, {r2} and {r1, r2} all pass
\* validate, check_password on {r1, r2} returns the disjunction of what it
\* returns on {r1} and on {r2}.
TwoValidRules ==
    /\ IsDefined(pcp)
    /\ Len(Get(pcp).rules) = 2
    /\ validate(Get(pcp)).ok
    /\ validate(SingleRulePolicy(Get(pcp), 1)).ok
    /\ validate(SingleRulePolicy(Get(pcp), 2)).ok

C1_OrSemantics ==
    (op = "check_password" /\ TwoValidRules)
    => /\ ~outcome.threw
       /\ ~check_password(password, SingleRulePolicy(Get(pcp), 1)).threw
       /\ ~check_password(password, SingleRulePolicy(Get(pcp), 2)).threw
       /\ outcome.value =
            (\/ check_password(password, SingleRulePolicy(Get(pcp), 1)).value
             \/ check_password(password, SingleRulePolicy(Get(pcp), 2)).value)

\* a password that only the second of two different rules accepts
C1_Witness ==
    /\ op = "check_password"
    /\ TwoValidRules
    /\ outcome.value
    /\ ~check_password(password, SingleRulePolicy(Get(pcp), 1)).value
    /\ check_password(password, SingleRulePolicy(Get(pcp), 2)).value

\* C2: with the default charsets and a single rule that has only min_length
\* and a non-empty require set of charsets of the table, check_password
\* returns true for a password of table characters, of length >= min_length,
\* in which every required charset appears, and false when one is missing.
RequireOnlyPolicy ==
    /\ IsDefined(pcp)
    /\ Get(pcp).charsets = DEFAULT_CHARSETS
    /\ Len(Get(pcp).rules) = 1
    /\ LET rule == Get(pcp).rules[1]
       IN /\ rule.min_length >= 1
          /\ IsDefined(rule.require)
          /\ Get(rule.require) # {}
          /\ Get(rule.require) \subseteq Keys(DEFAULT_CHARSETS)
          /\ rule = RequireRule(rule.min_length, rule.require, Undefined)

C2_RequireScenario ==
    (op = "check_password" /\ RequireOnlyPolicy)
    => /\ ~outcome.threw
       /\ outcome.value =
            (/\ AllInTable(password, DEFAULT_CHARSETS)
             /\ Len(password) >= Get(pcp).rules[1].min_length
             /\ \A r \in Get(Get(pcp).rules[1].require) :
                  HasCharOf(password, DEFAULT_CHARSETS, r))

\* C3: the required_locations clause holds exactly when every listed
\* position classifies to the charset, position p >= 0 addressing index p and
\* p < 0 addressing index len(password) + p.
LocationsOnlyPolicy ==
    /\ IsDefined(pcp)
    /\ validate(Get(pcp)).ok
    /\ Len(Get(pcp).rules) = 1
    /\ LET rule == Get(pcp).rules[1]
       IN /\ IsDefined(rule.charset_requirements)
          /\ Len(Get(rule.charset_requirements)) = 1
          /\ LET entry == Get(rule.charset_requirements)[1]
             IN /\ IsDefined(entry.value.required_locations)
                /\ rule = CharsetRule(rule.min_length, Undefined, Undefined, entry.key,
                            PCPCharsetRequirement(Undefined, Undefined, Undefined,
                                entry.value.required_locations, Undefined))

\* the 0-based index a position addresses
AddressedIndex(string, p) == IF p >= 0 THEN p ELSE Len(string) + p

ClassifiesTo(string, charsets, p, name) ==
    /\ AddressedIndex(string, p) >= 0
    /\ AddressedIndex(string, p) < Len(string)
    /\ string[AddressedIndex(string, p) + 1] \in Lookup(charsets, name)

C3_RequiredLocations ==
    (/\ op = "check_password"
     /\ LocationsOnlyPolicy
     /\ AllInTable(password, Get(pcp).charsets)
     /\ Len(password) >= Get(pcp).rules[1].min_length)
    => LET entry == Get(Get(pcp).rules[1].charset_requirements)[1]
       IN outcome.value =
            (\A p \in Get(entry.value.required_locations) :
                ClassifiesTo(password, Get(pcp).charsets, p, entry.key))

\* C4: round trip.  For a valid policy over one of the two built-in tables,
\* parse(stringify(policy)) does not throw and check_password gives on it the
\* outcome it gives on the policy.
ValidPresetPolicy ==
    /\ IsDefined(pcp)
    /\ validate(Get(pcp)).ok
    /\ Get(pcp).charsets \in {DEFAULT_CHARSETS, ALPHABET_CHARSETS}

C4_RoundTrip ==
    (ValidPresetPolicy /\ IsDefined(text))
    => /\ op = "parse" => ~outcome.threw
       /\ op = "check_parsed" => outcome = check_password(password, Get(pcp))

\* C5: check_password throws exactly when validate throws for the policy,
\* whatever the password, and throws the error of validate; for a policy that
\* validate accepts it returns a boolean.
C5_CheckRaisesIffInvalid ==
    /\ op = "check_password"
       => /\ outcome.threw <=> ~validate(Get(pcp)).ok
          /\ outcome.threw => outcome.error = validate(Get(pcp))
          /\ ~outcome.threw => outcome.error = Valid /\ outcome.value \in BOOLEAN
    /\ op = "check_parsed"
       => /\ outcome.threw <=> ~validate(Get(parsed)).ok
          /\ outcome.threw => outcome.error = validate(Get(parsed))
          /\ ~outcome.threw => outcome.error = Valid /\ outcome.value \in BOOLEAN

\* an invalid policy checked with a password that has a character outside
\* every charset
C5_Witness ==
    /\ op = "check_password"
    /\ outcome.threw
    /\ password # <<>>
    /\ ~AllInTable(password, Get(pcp).charsets)

\* C6 (as claimed): whenever two distinct charsets of the table share a
\* character, validate fails with an error that names two charsets sharing a
\* character, whatever else is wrong with the policy.
SharingPairs(charsets) ==
    {p \in (DOMAIN charsets) \X (DOMAIN charsets) :
        p[1] # p[2] /\ charsets[p[1]].value \cap charsets[p[2]].value # {}}

SomeEmptyCharset(charsets) == \E i \in DOMAIN charsets : charsets[i].value = {}

NamesSharingPair(error, charsets) ==
    \E p \in SharingPairs(charsets) :
        {charsets[p[1]].key, charsets[p[2]].key} \subseteq error.names

C6_OverlapAlwaysNamed ==
    (op = "validate" /\ SharingPairs(Get(pcp).charsets) # {})
    => outcome.threw /\ NamesSharingPair(outcome.error, Get(pcp).charsets)

\* C6 (amended): whenever two distinct charsets of the table share a
\* character, validate fails, whatever the rules are; the error names two
\* charsets sharing a character when no charset of the table is empty, and
\* names an empty charset, and only it, otherwise.
C6_OverlapNamedUnlessEmpty ==
    (op = "validate" /\ SharingPairs(Get(pcp).charsets) # {})
    => /\ outcome.threw
       /\ ~SomeEmptyCharset(Get(pcp).charsets)
          => /\ NamesSharingPair(outcome.error, Get(pcp).charsets)
             /\ outcome.error.msg = "may not have shared characters"
       /\ SomeEmptyCharset(Get(pcp).charsets)
          => /\ outcome.error.msg = "must not be empty"
             /\ \E i \in DOMAIN Get(pcp).charsets :
                  /\ Get(pcp).charsets[i].value = {}
                  /\ outcome.error.names = {Get(pcp).charsets[i].key}

\* a policy without rules and without empty charsets, two of whose charsets
\* share a character
C6_Witness ==
    /\ op = "validate"
    /\ SharingPairs(Get(pcp).charsets) # {}
    /\ ~SomeEmptyCharset(Get(pcp).charsets)
    /\ Get(pcp).rules = <<>>
    /\ outcome.threw

\* C7: a policy that validate accepts has only non-empty, pairwise disjoint
\* charsets, so every character of a password is in at most one charset.
DisjointTable(charsets, string) ==
    /\ \A i \in DOMAIN charsets : charsets[i].value # {}
    /\ \A i, j \in DOMAIN charsets :
         i # j => charsets[i].value \cap charsets[j].value = {}
    /\ \A k \in DOMAIN string : Cardinality(CharsetsWith(charsets, string[k])) <= 1

C7_Disjointness ==
    /\ (op \in {"validate", "check_password"} /\ ~outcome.threw)
       => DisjointTable(Get(pcp).charsets, password)
    /\ (op \in {"validate_parsed", "check_parsed"} /\ ~outcome.threw)
       => DisjointTable(Get(parsed).charsets, password)

\* a table of the caller's own that validate accepts
C7_Witness ==
    /\ op = "validate"
    /\ ~outcome.threw
    /\ Get(pcp).charsets \notin {DEFAULT_CHARSETS, ALPHABET_CHARSETS}
    /\ Len(Get(pcp).charsets) = 3

\* C8: validate accepts a required_locations position p in a rule of minimum
\* length m exactly when p >= 0 and m > p, or p < 0 and m >= -p.
LocationFeasible(p, m) == (p >= 0 /\ m > p) \/ (p < 0 /\ m >= 0 - p)

LocationsOnlyRule(rule) ==
    /\ IsDefined(rule.charset_requirements)
    /\ Len(Get(rule.charset_requirements)) = 1
    /\ LET entry == Get(rule.charset_requirements)[1]
       IN /\ IsDefined(entry.value.required_locations)
          /\ rule.min_length >= 1
          /\ rule = CharsetRule(rule.min_length, Undefined, Undefined, "digits",
                        PCPCharsetRequirement(Undefined, Undefined, Undefined,
                            entry.value.required_locations, Undefined))

C8_LocationFeasibility ==
    (/\ op = "validate"
     /\ Get(pcp).charsets = DEFAULT_CHARSETS
     /\ Len(Get(pcp).rules) = 1
     /\ LocationsOnlyRule(Get(pcp).rules[1]))
    => LET rule == Get(pcp).rules[1]
           locations == Get(Get(rule.charset_requirements)[1].value.required_locations)
       IN ~outcome.threw <=> \A p \in locations : LocationFeasible(p, rule.min_length)

\* C9: stringify leaves the charsets out only when the table equals, by
\* value, one of the two built-in tables; otherwise the text has a rules
\* array and a charsets diff: the characters of every charset that differs
\* from or is absent in the applicable built-in table, and null for every
\* charset of that table the policy lacks.
SameTable(first, second) ==
    /\ Keys(first) = Keys(second)
    /\ \A k \in Keys(first) : Lookup(first, k) = Lookup(second, k)

IsDiffOf(diff, charsets, preset) ==
    /\ Keys(diff) =
          {k \in Keys(charsets) : k \notin Keys(preset) \/ Lookup(charsets, k) # Lookup(preset, k)}
          \cup (Keys(preset) \ Keys(charsets))
    /\ \A i \in DOMAIN diff :
         IF diff[i].key \in Keys(charsets)
         THEN /\ IsDefined(diff[i].value)
              /\ SetOfString(Get(diff[i].value)) = Lookup(charsets, diff[i].key)
              /\ Len(Get(diff[i].value)) = Cardinality(Lookup(charsets, diff[i].key))
         ELSE diff[i].value = Undefined

C9_CharsetsOmittedOnlyForPresets ==
    op = "stringify"
    => LET this == Get(pcp)
           s == Get(text)
           preset == IF HasKey(this.charsets, "alphabet")
                     THEN ALPHABET_CHARSETS ELSE DEFAULT_CHARSETS
       IN IF \/ SameTable(this.charsets, DEFAULT_CHARSETS)
             \/ SameTable(this.charsets, ALPHABET_CHARSETS)
          THEN ~IsDefined(s.charsets)
          ELSE /\ IsDefined(s.rules)
               /\ Len(Get(s.rules)) = Len(this.rules)
               /\ IsDefined(s.charsets)
               /\ IsDiffOf(Get(s.charsets), this.charsets, preset)

\* C10: parse seeds the table with the alphabet preset exactly when a rule of
\* the text names "alphabet" in require, in require_subset.options or as a
\* key of charset_requirements, and with the default preset otherwise.  A
\* text without charsets entries shows the seed as the table of the policy.
JsonNames(json) == IF IsDefined(json) THEN Get(json).items ELSE {}

JsonRuleNamesAlphabet(data) ==
    \/ "alphabet" \in JsonNames(data.require)
    \/ /\ IsDefined(data.require_subset)
       /\ "alphabet" \in JsonNames(Get(data.require_subset).options)
    \/ /\ IsDefined(data.charset_requirements)
       /\ HasKey(Get(data.charset_requirements), "alphabet")

TextNamesAlphabet(s) ==
    IF IsDefined(s.rules)
    THEN \E i \in DOMAIN Get(s.rules) : JsonRuleNamesAlphabet(Get(s.rules)[i])
    ELSE JsonRuleNamesAlphabet(s.top)

C10_AlphabetSeed ==
    (/\ op = "parse"
     /\ ~outcome.threw
     /\ (IsDefined(Get(text).charsets) => Get(Get(text).charsets) = <<>>))
    => Get(parsed).charsets =
          IF TextNamesAlphabet(Get(text)) THEN ALPHABET_CHARSETS ELSE DEFAULT_CHARSETS

\* the rules of the policy that op has just validated without an error
AcceptedRules ==
    IF op \in {"validate", "check_password"} /\ ~outcome.threw
    THEN {Get(pcp).rules[i] : i \in DOMAIN Get(pcp).rules}
    ELSE IF op \in {"validate_parsed", "check_parsed"} /\ ~outcome.threw
    THEN {Get(parsed).rules[i] : i \in DOMAIN Get(parsed).rules}
    ELSE {}

\* C11: every rule of a policy that validate accepts has min_length >= 1,
\* max_length, when set, >= min_length, and max_consecutive, when set, >= 1;
\* so a rule whose max_length or max_consecutive is set to 0 is rejected and
\* check_password never evaluates it.
C11_ScalarBounds ==
    \A rule \in AcceptedRules :
        /\ rule.min_length >= 1
        /\ IsDefined(rule.max_length) => Get(rule.max_length) >= rule.min_length
        /\ IsDefined(rule.max_consecutive) => Get(rule.max_consecutive) >= 1

\* the charsets a rule names in require or in the options of its subset
\* requirement
NamedAsRequired(rule) ==
    (IF IsDefined(rule.require) THEN Get(rule.require) ELSE {})
    \cup (IF IsDefined(rule.require_subset) /\ IsDefined(Get(rule.require_subset).options)
          THEN Get(Get(rule.require_subset).options)
          ELSE {})

\* the entries of charset_requirements of a rule
Entries(rule) ==
    IF IsDefined(rule.charset_requirements)
    THEN {Get(rule.charset_requirements)[i] : i \in DOMAIN Get(rule.charset_requirements)}
    ELSE {}

\* C12: cross-field non-overlap.  In a rule that validate accepts, a
\* charset_requirements entry for a charset named in require or among the
\* options of the subset requirement neither sets min_required nor sets
\* max_allowed = 0.
C12_CrossFieldNonOverlap ==
    \A rule \in AcceptedRules :
        \A entry \in Entries(rule) :
            entry.key \in NamedAsRequired(rule)
            => /\ ~IsDefined(entry.value.min_required)
               /\ entry.value.max_allowed # Some(0)

\* C13: the prohibited_locations clause fails exactly when a listed position
\* p, addressing index p when p >= 0 and index L + p when p < 0 (L the length
\* of the password), addresses an index in 0..L-1 whose character is of the
\* charset; listing L + p in place of p, for -L <= p < 0, gives the same
\* outcome; a position addressing no index of the password causes no failure
\* and no error.
ProhibitedOnlyPolicy ==
    /\ IsDefined(pcp)
    /\ validate(Get(pcp)).ok
    /\ Len(Get(pcp).rules) = 1
    /\ LET rule == Get(pcp).rules[1]
       IN /\ IsDefined(rule.charset_requirements)
          /\ Len(Get(rule.charset_requirements)) = 1
          /\ LET entry == Get(rule.charset_requirements)[1]
             IN /\ IsDefined(entry.value.prohibited_locations)
                /\ rule = CharsetRule(rule.min_length, Undefined, Undefined, entry.key,
                            PCPCharsetRequirement(Undefined, Undefined, Undefined, Undefined,
                                entry.value.prohibited_locations))

\* the positions with every p, -L <= p < 0, replaced by L + p
TranslatedLocations(string, locations) ==
    {IF p < 0 /\ 0 - Len(string) <= p THEN Len(string) + p ELSE p : p \in locations}

\* the policy of one rule with the prohibited positions replaced
WithProhibitedLocations(p, locations) ==
    [rules |->
        <<CharsetRule(p.rules[1].min_length, Undefined, Undefined,
                      Get(p.rules[1].charset_requirements)[1].key,
                      PCPCharsetRequirement(Undefined, Undefined, Undefined, Undefined,
                                            Some(locations)))>>,
     charsets |-> p.charsets]

C13_ProhibitedLocations ==
    (/\ op = "check_password"
     /\ ProhibitedOnlyPolicy
     /\ AllInTable(password, Get(pcp).charsets)
     /\ Len(password) >= Get(pcp).rules[1].min_length)
    => LET entry == Get(Get(pcp).rules[1].charset_requirements)[1]
           locations == Get(entry.value.prohibited_locations)
       IN /\ ~outcome.threw
          /\ outcome.value =
                ~(\E p \in locations :
                     ClassifiesTo(password, Get(pcp).charsets, p, entry.key))
          /\ outcome =
                check_password(password,
                    WithProhibitedLocations(Get(pcp),
                        TranslatedLocations(password, locations)))

\* a password rejected for the character a negative prohibited position
\* addresses
C13_Witness ==
    /\ op = "check_password"
    /\ ProhibitedOnlyPolicy
    /\ AllInTable(password, Get(pcp).charsets)
    /\ Len(password) >= Get(pcp).rules[1].min_length
    /\ LET entry == Get(Get(pcp).rules[1].charset_requirements)[1]
       IN \E p \in Get(entry.value.prohibited_locations) :
             /\ p < 0
             /\ ClassifiesTo(password, Get(pcp).charsets, p, entry.key)
    /\ ~outcome.threw
    /\ ~outcome.value

\* C14: every rule that validate accepts and that has a non-empty require
\* set, or a charset_requirements entry with min_required set, also has a
\* require_subset with explicit options, and the options contain none of
\* those charsets (without explicit options the overlap check takes the whole
\* table as the options).
ExplicitOptionsExclude(rule, names) ==
    /\ IsDefined(rule.require_subset)
    /\ IsDefined(Get(rule.require_subset).options)
    /\ Get(Get(rule.require_subset).options) \cap names = {}

C14_ImplicitWholeTableOptions ==
    \A rule \in AcceptedRules :
        /\ (IsDefined(rule.require) /\ Get(rule.require) # {})
           => ExplicitOptionsExclude(rule, Get(rule.require))
        /\ \A entry \in Entries(rule) :
              IsDefined(entry.value.min_required)
              => ExplicitOptionsExclude(rule, {entry.key})

====
